---- MODULE Spec2Model ----
(***************************************************************************)
(* Shape-level model of src/mel2wav/modules.py: the mel-spectrogram        *)
(* extractor (Audio2Mel), the residual block, the Generator, the           *)
(* feature-pyramid NLayerDiscriminator and the Discriminator ensemble.     *)
(*                                                                         *)
(* A tensor is modelled by its shape [b, c, l] (batch, channels, time);    *)
(* a layer by its constructor arguments; a forward call by the shape       *)
(* arithmetic and the shape checks of the tensor library, which raise      *)
(* when a contract is violated.  Element values are modelled only where a  *)
(* claim is about them (the clamp/log10 tail of Audio2Mel and the          *)
(* comparison made by list.remove).                                        *)
(*                                                                         *)
(* The statements at lines 189, 227, 228 and 233 of the source are         *)
(* indented with tabs inside space-indented blocks; they are modelled at   *)
(* the level of the block that surrounds them, the only reading under      *)
(* which they execute.                                                     *)
(***************************************************************************)
EXTENDS Integers, Sequences, FiniteSets, TLC

VARIABLES op, pc, cfg, input, model, modules, x, idx,
          bottom_up, top_down, results, raised, mel

vars == <<op, pc, cfg, input, model, modules, x, idx,
          bottom_up, top_down, results, raised, mel>>

-----------------------------------------------------------------------------
(* Bounds of the model. *)

MaxBatch == 2
MaxInputSize == 2
MaxNgf == 2
MaxResidualLayers == 5
MaxFrames == 11
MaxDim == 2
MaxDilation == 4
MaxResLen == 6
MaxAudioLen == 520
MaxSmallNfft == 5
MaxSmallAudioLen == 12
MaxAmp == 2
MaxW == 5
UnitExp == 6
MaxLog2Ndf == 4
MaxNLayers == 4
MaxDownsampling == 4
MaxLog2Len == 10
MaxNumD == 2

-----------------------------------------------------------------------------
(* Tensors (shapes) and the outcome of a failed shape check. *)

Shape(b, c, l) == [ok |-> TRUE, b |-> b, c |-> c, l |-> l]

Err == [ok |-> FALSE, b |-> 0, c |-> 0, l |-> 0]

Numel(s) == s.b * s.c * s.l

Max2(a, b) == IF a >= b THEN a ELSE b

Min2(a, b) == IF a <= b THEN a ELSE b

RECURSIVE Pow(_, _)
Pow(a, n) == IF n = 0 THEN 1 ELSE a * Pow(a, n - 1)

(* Broadcasting of one dimension in an elementwise addition: 0 when the    *)
(* sizes are incompatible.                                                 *)
BroadcastDim(a, b) == IF a = b THEN a ELSE IF a = 1 THEN b ELSE IF b = 1 THEN a ELSE 0

Add(s, t) ==
    IF ~s.ok \/ ~t.ok THEN Err
    ELSE IF BroadcastDim(s.b, t.b) = 0 \/ BroadcastDim(s.c, t.c) = 0
            \/ BroadcastDim(s.l, t.l) = 0 THEN Err
    ELSE Shape(BroadcastDim(s.b, t.b), BroadcastDim(s.c, t.c), BroadcastDim(s.l, t.l))

-----------------------------------------------------------------------------
(* Layers: constructor arguments. *)

Layer(kind, cin, cout, k, stride, padding, dilation, groups, output_padding) ==
    [kind |-> kind, cin |-> cin, cout |-> cout, k |-> k, stride |-> stride,
     padding |-> padding, dilation |-> dilation, groups |-> groups,
     output_padding |-> output_padding]

WNConv1d(cin, cout, k, stride, padding, dilation, groups) ==
    Layer("Conv1d", cin, cout, k, stride, padding, dilation, groups, 0)

WNConvTranspose1d(cin, cout, k, stride, padding, output_padding) ==
    Layer("ConvTranspose1d", cin, cout, k, stride, padding, 1, 1, output_padding)

ReflectionPad1d(p) == Layer("ReflectionPad1d", 0, 0, 0, 1, p, 1, 1, 0)

LeakyReLU == Layer("LeakyReLU", 0, 0, 0, 1, 0, 1, 1, 0)

Tanh == Layer("Tanh", 0, 0, 0, 1, 0, 1, 1, 0)

ResnetBlock(dim, dilation) == Layer("ResnetBlock", dim, dim, 3, 1, 0, dilation, 1, 0)

(* The convolution constructor rejects a group count that is not positive  *)
(* or does not divide both channel counts.                                 *)
ValidLayer(m) ==
    m.kind = "Conv1d" =>
        /\ m.groups >= 1
        /\ m.cin % m.groups = 0
        /\ m.cout % m.groups = 0

-----------------------------------------------------------------------------
(* Forward shape arithmetic of the layers. *)

Conv1dForward(m, s) ==
    IF ~s.ok \/ s.c # m.cin THEN Err
    ELSE IF s.l + 2 * m.padding - m.dilation * (m.k - 1) - 1 < 0 THEN Err
    ELSE Shape(s.b, m.cout,
               ((s.l + 2 * m.padding - m.dilation * (m.k - 1) - 1) \div m.stride) + 1)

(* backend_checks: whether the convolution backend enforces               *)
(* output_padding < max(stride, dilation).                                 *)
ConvTranspose1dForward(m, s, backend_checks) ==
    IF ~s.ok \/ s.c # m.cin THEN Err
    ELSE IF backend_checks /\ m.output_padding >= Max2(m.stride, m.dilation) THEN Err
    ELSE IF (s.l - 1) * m.stride - 2 * m.padding + m.dilation * (m.k - 1)
              + m.output_padding + 1 < 1 THEN Err
    ELSE Shape(s.b, m.cout,
               (s.l - 1) * m.stride - 2 * m.padding + m.dilation * (m.k - 1)
                 + m.output_padding + 1)

ReflectionPad1dForwardMut(m, s) ==
    IF ~s.ok \/ m.padding > s.l THEN Err
    ELSE Shape(s.b, s.c, s.l + 2 * m.padding)

ReflectionPad1dForward(m, s) ==
    IF ~s.ok \/ m.padding >= s.l THEN Err
    ELSE Shape(s.b, s.c, s.l + 2 * m.padding)

ResnetBlockBlockMut(dim, dilation) ==
    << LeakyReLU,
       ReflectionPad1d(1),
       WNConv1d(dim, dim, 3, 1, 0, dilation, 1),
       LeakyReLU,
       WNConv1d(dim, dim, 1, 1, 0, 1, 1) >>

ResnetBlockBlock(dim, dilation) ==
    << LeakyReLU,
       ReflectionPad1d(dilation),
       WNConv1d(dim, dim, 3, 1, 0, dilation, 1),
       LeakyReLU,
       WNConv1d(dim, dim, 1, 1, 0, 1, 1) >>

ResnetBlockShortcut(dim) == WNConv1d(dim, dim, 1, 1, 0, 1, 1)

PlainForward(m, s, backend_checks) ==
    IF m.kind = "Conv1d" THEN Conv1dForward(m, s)
    ELSE IF m.kind = "ConvTranspose1d" THEN ConvTranspose1dForward(m, s, backend_checks)
    ELSE IF m.kind = "ReflectionPad1d" THEN ReflectionPad1dForward(m, s)
    ELSE s

RECURSIVE SequentialForward(_, _, _)
SequentialForward(layers, s, backend_checks) ==
    IF layers = <<>> THEN s
    ELSE SequentialForward(Tail(layers), PlainForward(Head(layers), s, backend_checks),
                           backend_checks)

ResnetBlockForward(m, s) ==
    Add(Conv1dForward(ResnetBlockShortcut(m.cin), s),
        SequentialForward(ResnetBlockBlock(m.cin, m.dilation), s, TRUE))

LayerForward(m, s, backend_checks) ==
    IF m.kind = "ResnetBlock" THEN ResnetBlockForward(m, s)
    ELSE PlainForward(m, s, backend_checks)

-----------------------------------------------------------------------------
(* Generator.__init__: the layer list. *)

ratios == <<8, 8, 2, 2>>

UpsampleLayerMut(mult, ngf, r) ==
    WNConvTranspose1d(mult * ngf, (mult * ngf) \div 2, r * 2, r, r % 2, r % 2)

UpsampleLayer(mult, ngf, r) ==
    WNConvTranspose1d(mult * ngf, (mult * ngf) \div 2, r * 2, r, (r \div 2) + (r % 2), r % 2)

UpsampleStage(mult, ngf, r, n_residual_layers) ==
    << LeakyReLU, UpsampleLayer(mult, ngf, r) >>
    \o [j \in 1..n_residual_layers |-> ResnetBlock((mult * ngf) \div 2, Pow(3, j - 1))]

RECURSIVE UpsampleLoop(_, _, _, _)
UpsampleLoop(i, mult, ngf, n_residual_layers) ==
    IF i > Len(ratios) THEN <<>>
    ELSE UpsampleStage(mult, ngf, ratios[i], n_residual_layers)
         \o UpsampleLoop(i + 1, mult \div 2, ngf, n_residual_layers)

GeneratorModel(input_size, ngf, n_residual_layers) ==
    << ReflectionPad1d(3),
       WNConv1d(input_size, Pow(2, Len(ratios)) * ngf, 7, 1, 0, 1, 1) >>
    \o UpsampleLoop(1, Pow(2, Len(ratios)), ngf, n_residual_layers)
    \o << LeakyReLU,
          ReflectionPad1d(3),
          WNConv1d(ngf, 1, 7, 1, 0, 1, 1),
          Tanh >>

-----------------------------------------------------------------------------
(* The module tree walked by nn.Module.apply, children before the parent,  *)
(* and weights_init.  A class name is the sequence of its words, so that   *)
(* classname.find("Conv") is a search and not a table.                     *)

ClassName(kind) ==
    CASE kind = "Conv1d" -> <<"Conv", "1d">>
      [] kind = "ConvTranspose1d" -> <<"Conv", "Transpose", "1d">>
      [] kind = "ReflectionPad1d" -> <<"Reflection", "Pad", "1d">>
      [] kind = "LeakyReLU" -> <<"Leaky", "ReLU">>
      [] kind = "Tanh" -> <<"Tanh">>
      [] kind = "ResnetBlock" -> <<"Resnet", "Block">>
      [] kind = "Sequential" -> <<"Sequential">>
      [] kind = "ModuleDict" -> <<"Module", "Dict">>
      [] kind = "AvgPool1d" -> <<"Avg", "Pool", "1d">>
      [] kind = "Generator" -> <<"Generator">>
      [] kind = "NLayerDiscriminator" -> <<"N", "Layer", "Discriminator">>
      [] kind = "Discriminator" -> <<"Discriminator">>

HasParameters(kind) == kind \in {"Conv1d", "ConvTranspose1d"}

(* A module as apply sees it: its class and what its weight and bias hold. *)
(* "default" is the value the layer's own constructor drew.                *)
Module(kind) ==
    [kind |-> kind,
     weight |-> IF HasParameters(kind) THEN "default" ELSE "none",
     bias |-> IF HasParameters(kind) THEN "default" ELSE "none",
     visited |-> FALSE]

Find(classname, word) == \E i \in 1..Len(classname) : classname[i] = word

Find2(classname, w1, w2) ==
    \E i \in 1..(Len(classname) - 1) : classname[i] = w1 /\ classname[i + 1] = w2

weights_initMut(m) ==
    IF ClassName(m.kind) = <<"Conv", "1d">>
    THEN [m EXCEPT !.weight = "normal(0.0, 0.02)", !.visited = TRUE]
    ELSE IF Find2(ClassName(m.kind), "Batch", "Norm")
    THEN [m EXCEPT !.weight = "normal(1.0, 0.02)", !.bias = "zero", !.visited = TRUE]
    ELSE [m EXCEPT !.visited = TRUE]

weights_init(m) ==
    IF Find(ClassName(m.kind), "Conv")
    THEN [m EXCEPT !.weight = "normal(0.0, 0.02)", !.visited = TRUE]
    ELSE IF Find2(ClassName(m.kind), "Batch", "Norm")
    THEN [m EXCEPT !.weight = "normal(1.0, 0.02)", !.bias = "zero", !.visited = TRUE]
    ELSE [m EXCEPT !.visited = TRUE]

LayerModules(m) ==
    IF m.kind = "ResnetBlock"
    THEN [i \in 1..Len(ResnetBlockBlock(m.cin, m.dilation)) |->
             Module(ResnetBlockBlock(m.cin, m.dilation)[i].kind)]
         \o << Module("Sequential"),
               Module(ResnetBlockShortcut(m.cin).kind),
               Module("ResnetBlock") >>
    ELSE << Module(m.kind) >>

RECURSIVE SequentialModules(_)
SequentialModules(layers) ==
    IF layers = <<>> THEN << Module("Sequential") >>
    ELSE LayerModules(Head(layers)) \o SequentialModules(Tail(layers))

GeneratorModules(layers) == SequentialModules(layers) \o << Module("Generator") >>

-----------------------------------------------------------------------------
(* NLayerDiscriminator.__init__: the bottom-up stack (a list of items, each *)
(* the layers of one entry of the ModuleDict) and the fixed layers.         *)

RECURSIVE Nf(_, _, _)
Nf(ndf, stride, n) ==
    IF n = 0 THEN ndf ELSE Min2(Nf(ndf, stride, n - 1) * stride, 1024)

DownLayer(ndf, stride, n) ==
    << WNConv1d(Nf(ndf, stride, n - 1), Nf(ndf, stride, n), stride * 10 + 1, stride,
                stride * 5, 1, Nf(ndf, stride, n - 1) \div 4),
       LeakyReLU >>

NLDModel(ndf, n_layers, downsampling_factor) ==
    << << ReflectionPad1d(7), WNConv1d(1, ndf, 15, 1, 0, 1, 1), LeakyReLU >> >>
    \o [n \in 1..n_layers |-> DownLayer(ndf, downsampling_factor, n)]
    \o << << WNConv1d(Nf(ndf, downsampling_factor, n_layers - 1),
                      Min2(Nf(ndf, downsampling_factor, n_layers) * 2, 1024),
                      5, 1, 2, 1, 1),
             LeakyReLU >>,
          << WNConv1d(Min2(Nf(ndf, downsampling_factor, n_layers) * 2, 1024), 1,
                      3, 1, 1, 1, 1) >> >>

(* Whether every convolution of the stack can be constructed. *)
NLDConstructible(items) ==
    \A i \in 1..Len(items) : \A j \in 1..Len(items[i]) : ValidLayer(items[i][j])

toplayer == Layer("Conv1d", 1024, 1024, 1, 1, 0, 1, 1, 0)

smooth1 == WNConv1d(1024, 256, 3, 1, 1, 1, 1)

smooth2 == WNConv1d(256, 256, 3, 1, 1, 1, 1)

smooth3 == WNConv1d(16, 16, 3, 1, 1, 1, 1)

smooth4 == WNConv1d(16, 16, 3, 1, 1, 1, 1)

latlayer1 == WNConv1d(1024, 1024, 1, 1, 0, 1, 1)

latlayer2 == WNConv1d(256, 256, 1, 1, 0, 1, 1)

latlayer3 == WNConv1d(64, 64, 1, 1, 0, 1, 1)

latlayer4 == WNConv1d(16, 16, 1, 1, 0, 1, 1)

conv1d_0 == WNConvTranspose1d(1024, 1024, 5, 1, 2, 3)

conv1d_1 == WNConvTranspose1d(1024, 256, 41, 4, 20, 3)

conv1d_2 == WNConvTranspose1d(256, 64, 41, 4, 20, 3)

conv1d_3 == WNConvTranspose1d(64, 16, 41, 4, 20, 3)

conv1d_4 == WNConvTranspose1d(16, 1, 41, 4, 20, 3)

(* Lines 233-246 as a table: the upsampling layer, the lateral layer and   *)
(* the position in bottom_up (counted from 1) of the lateral's argument.   *)
(* The first upsample reads bottom_up[0], the others the previous result;  *)
(* the last step has no lateral term.                                      *)
TopDownSteps ==
    << [up |-> conv1d_0, lat |-> latlayer1, src |-> 2, name |-> "latlayer1"],
       [up |-> conv1d_1, lat |-> latlayer2, src |-> 3, name |-> "latlayer2"],
       [up |-> conv1d_2, lat |-> latlayer3, src |-> 3, name |-> "latlayer3"],
       [up |-> conv1d_3, lat |-> latlayer4, src |-> 4, name |-> "latlayer4"],
       [up |-> conv1d_4, lat |-> LeakyReLU, src |-> 0, name |-> "none"] >>

ItemModules(item) ==
    IF Len(item) = 1 THEN << Module(item[1].kind) >>
    ELSE [j \in 1..Len(item) |-> Module(item[j].kind)] \o << Module("Sequential") >>

RECURSIVE ItemsModules(_)
ItemsModules(items) ==
    IF items = <<>> THEN << Module("ModuleDict") >>
    ELSE ItemModules(Head(items)) \o ItemsModules(Tail(items))

NLDModules(items) ==
    ItemsModules(items)
    \o [i \in 1..14 |->
          Module(<< toplayer, smooth1, smooth2, smooth3, smooth4,
                    latlayer1, latlayer2, latlayer3, latlayer4,
                    conv1d_0, conv1d_1, conv1d_2, conv1d_3, conv1d_4 >>[i].kind)]
    \o << Module("NLayerDiscriminator") >>

RECURSIVE RepeatModules(_, _)
RepeatModules(ms, n) == IF n = 0 THEN <<>> ELSE ms \o RepeatModules(ms, n - 1)

DiscriminatorModules(items, num_D) ==
    RepeatModules(NLDModules(items), num_D)
    \o << Module("ModuleDict"), Module("AvgPool1d"), Module("Discriminator") >>

(* list.reverse() *)
Reverse(list) == [i \in 1..Len(list) |-> list[Len(list) + 1 - i]]

RemoveAt(list, i) == [j \in 1..(Len(list) - 1) |-> IF j < i THEN list[j] ELSE list[j + 1]]

(* The comparisons list.remove(0) can meet: z[i] says whether the tensor   *)
(* at i, when it has a single element, equals 0.                           *)
ZeroMasks(list) ==
    {z \in [1..Len(list) -> BOOLEAN] : \A i \in 1..Len(list) : Numel(list[i]) # 1 => ~z[i]}

(* list.remove(0): scans from the front for an item equal to 0.  The       *)
(* comparison of a tensor with 0 is a tensor; its truth value is an error  *)
(* when it has more than one element.  No match is a ValueError.           *)
RECURSIVE ListRemove(_, _, _)
ListRemove(list, z, i) ==
    IF i > Len(list) THEN [raised |-> "ValueError", list |-> list]
    ELSE IF Numel(list[i]) > 1 THEN [raised |-> "RuntimeError", list |-> list]
    ELSE IF z[i] THEN [raised |-> "none", list |-> RemoveAt(list, i)]
    ELSE ListRemove(list, z, i + 1)

(* One step of the top-down path.  The left operand of + is evaluated      *)
(* first; indexing past the end of bottom_up is an IndexError.             *)
TopDownResult(step, upin, list, backend_checks) ==
    LET u == ConvTranspose1dForward(step.up, upin, backend_checks) IN
    IF ~u.ok THEN [raised |-> "RuntimeError", result |-> Err]
    ELSE IF step.src = 0 THEN [raised |-> "none", result |-> u]
    ELSE IF step.src > Len(list) THEN [raised |-> "IndexError", result |-> Err]
    ELSE LET r == Add(u, Conv1dForward(step.lat, list[step.src])) IN
         [raised |-> IF r.ok THEN "none" ELSE "RuntimeError", result |-> r]

NdfValues == {Pow(2, e) : e \in 0..MaxLog2Ndf}

WaveformLens == {Pow(2, e) : e \in 0..MaxLog2Len}

-----------------------------------------------------------------------------
(* State. *)

NoCfg == [kind |-> "none"]

NoMel == [stage |-> "none"]

Init ==
    /\ op = "idle"
    /\ pc = "idle"
    /\ cfg = NoCfg
    /\ input = Err
    /\ model = <<>>
    /\ modules = <<>>
    /\ x = Err
    /\ idx = 0
    /\ bottom_up = <<>>
    /\ top_down = <<>>
    /\ results = <<>>
    /\ raised = "none"
    /\ mel = NoMel

-----------------------------------------------------------------------------
(* self.apply(weights_init): one step per module of the tree. *)

Apply ==
    /\ pc = "apply"
    /\ modules' = [modules EXCEPT ![idx] = weights_init(@)]
    /\ idx' = idx + 1
    /\ pc' = IF idx = Len(modules) THEN "ready" ELSE "apply"
    /\ UNCHANGED <<op, cfg, input, model, x, bottom_up, top_down, results, raised, mel>>

-----------------------------------------------------------------------------
(* Generator. *)

GeneratorInit ==
    /\ pc = "idle"
    /\ \E input_size \in 1..MaxInputSize, ngf \in 1..MaxNgf,
          n_residual_layers \in 0..MaxResidualLayers :
          /\ cfg' = [kind |-> "Generator", input_size |-> input_size, ngf |-> ngf,
                     n_residual_layers |-> n_residual_layers]
          /\ model' = GeneratorModel(input_size, ngf, n_residual_layers)
          /\ modules' = GeneratorModules(GeneratorModel(input_size, ngf, n_residual_layers))
    /\ op' = "gen"
    /\ pc' = "apply"
    /\ idx' = 1
    /\ UNCHANGED <<input, x, bottom_up, top_down, results, raised, mel>>

GeneratorForward ==
    /\ op = "gen"
    /\ pc = "ready"
    /\ \E b \in 1..MaxBatch, frames \in 1..MaxFrames :
          /\ input' = Shape(b, cfg.input_size, frames)
          /\ x' = Shape(b, cfg.input_size, frames)
    /\ idx' = 1
    /\ pc' = "forward"
    /\ UNCHANGED <<op, cfg, model, modules, bottom_up, top_down, results, raised, mel>>

(* nn.Sequential.forward: one layer per step; a failed shape check raises. *)
GeneratorStep ==
    /\ op = "gen"
    /\ pc = "forward"
    /\ x' = LayerForward(model[idx], x, TRUE)
    /\ idx' = idx + 1
    /\ raised' = IF x'.ok THEN raised ELSE "RuntimeError"
    /\ pc' = IF ~x'.ok \/ idx = Len(model) THEN "done" ELSE "forward"
    /\ UNCHANGED <<op, cfg, input, model, modules, bottom_up, top_down, results, mel>>

-----------------------------------------------------------------------------
(* ResnetBlock on its own. *)

ResnetBlockInit ==
    /\ pc = "idle"
    /\ \E dim \in 1..MaxDim, dilation \in 1..MaxDilation :
          /\ cfg' = [kind |-> "ResnetBlock", dim |-> dim, dilation |-> dilation]
          /\ model' = << ResnetBlock(dim, dilation) >>
    /\ op' = "res"
    /\ pc' = "ready"
    /\ UNCHANGED <<input, modules, x, idx, bottom_up, top_down, results, raised, mel>>

ResnetBlockCall ==
    /\ op = "res"
    /\ pc = "ready"
    /\ \E b \in 1..MaxBatch, l \in 1..MaxResLen :
          /\ input' = Shape(b, cfg.dim, l)
          /\ x' = ResnetBlockForward(model[1], Shape(b, cfg.dim, l))
    /\ raised' = IF x'.ok THEN raised ELSE "RuntimeError"
    /\ pc' = "done"
    /\ UNCHANGED <<op, cfg, model, modules, idx, bottom_up, top_down, results, mel>>

-----------------------------------------------------------------------------
(* Audio2Mel.  Values are integers in units of 10^-UnitExp; the stft       *)
(* output is not computed from the samples: one bin (re, im) and one       *)
(* filter-bank weight w >= 0 stand for a term of the matrix product.       *)

DefaultAudio2Mel ==
    [kind |-> "Audio2Mel", n_fft |-> 1024, hop_length |-> 256, win_length |-> 1024,
     n_mel_channels |-> 80]

(* The configurations explored: the default one and small ones with      *)
(* hop_length <= n_fft (p is not negative) and win_length = n_fft.         *)
Audio2MelConfigs ==
    {DefaultAudio2Mel}
    \cup {c \in {[kind |-> "Audio2Mel", n_fft |-> n, hop_length |-> h, win_length |-> n,
                  n_mel_channels |-> 80] : n \in 2..MaxSmallNfft, h \in 1..MaxSmallNfft} :
             c.hop_length <= c.n_fft}

AudioLens(c) ==
    IF c.n_fft = DefaultAudio2Mel.n_fft THEN 1..MaxAudioLen ELSE 1..MaxSmallAudioLen

(* Frames of torch.stft with center=False. *)
StftFramesMut(len, n_fft, hop_length) == 1 + (len \div hop_length)

StftFrames(len, n_fft, hop_length) == 1 + ((len - n_fft) \div hop_length)

Isqrt(n) == CHOOSE r \in 0..n : r * r <= n /\ n < (r + 1) * (r + 1)

ClampMin == Pow(10, UnitExp - 5)

ClampMut(v, lo) == IF v > lo THEN lo ELSE v

Clamp(v, lo) == IF v < lo THEN lo ELSE v

RECURSIVE FloorLog10(_)
FloorLog10(v) == IF v < 10 THEN 0 ELSE 1 + FloorLog10(v \div 10)

(* log10 of v * 10^-UnitExp, rounded down; minus infinity at 0. *)
Log10(v) ==
    IF v <= 0 THEN [finite |-> FALSE, v |-> 0]
    ELSE [finite |-> TRUE, v |-> FloorLog10(v) - UnitExp]

Audio2MelInit ==
    /\ pc = "idle"
    /\ \E c \in Audio2MelConfigs : cfg' = c
    /\ op' = "mel"
    /\ pc' = "ready"
    /\ UNCHANGED <<input, model, modules, x, idx, bottom_up, top_down, results, raised, mel>>

(* Lines 55-56: p and the reflection padding of the waveform. *)
Audio2MelPad ==
    /\ op = "mel"
    /\ pc = "ready"
    /\ \E l \in AudioLens(cfg) :
          /\ input' = Shape(1, 1, l)
          /\ x' = ReflectionPad1dForward(
                     ReflectionPad1d((cfg.n_fft - cfg.hop_length) \div 2), Shape(1, 1, l))
    /\ raised' = IF x'.ok THEN raised ELSE "RuntimeError"
    /\ pc' = IF x'.ok THEN "stft" ELSE "done"
    /\ mel' = [stage |-> "pad", p |-> (cfg.n_fft - cfg.hop_length) \div 2]
    /\ UNCHANGED <<op, cfg, model, modules, idx, bottom_up, top_down, results>>

(* Lines 57-64: the stft raises when the padded signal is shorter than n_fft. *)
Audio2MelStft ==
    /\ op = "mel"
    /\ pc = "stft"
    /\ x' = IF x.l < cfg.n_fft THEN Err
            ELSE Shape(x.b, cfg.n_fft \div 2 + 1, StftFrames(x.l, cfg.n_fft, cfg.hop_length))
    /\ raised' = IF x'.ok THEN raised ELSE "RuntimeError"
    /\ pc' = IF x'.ok THEN "log" ELSE "done"
    /\ mel' = [mel EXCEPT !.stage = "stft"]
    /\ UNCHANGED <<op, cfg, input, model, modules, idx, bottom_up, top_down, results>>

(* Lines 65-69: magnitude, mel projection, clamp, log10. *)
Audio2MelLog ==
    /\ op = "mel"
    /\ pc = "log"
    /\ \E re \in (-MaxAmp)..MaxAmp, im \in 0..MaxAmp, w \in 0..MaxW :
          mel' = [stage |-> "log", p |-> mel.p,
                  magnitude |-> Isqrt(re * re + im * im),
                  mel_output |-> w * Isqrt(re * re + im * im),
                  clamped |-> Clamp(w * Isqrt(re * re + im * im), ClampMin),
                  log_mel_spec |-> Log10(Clamp(w * Isqrt(re * re + im * im), ClampMin))]
    /\ x' = Shape(x.b, cfg.n_mel_channels, x.l)
    /\ pc' = "done"
    /\ UNCHANGED <<op, cfg, input, model, modules, idx, bottom_up, top_down, results, raised>>

-----------------------------------------------------------------------------
(* NLayerDiscriminator. *)

NLayerDiscriminatorInit ==
    /\ pc = "idle"
    /\ \E ndf \in NdfValues, n_layers \in 1..MaxNLayers,
          downsampling_factor \in 1..MaxDownsampling :
          /\ cfg' = [kind |-> "NLayerDiscriminator", num_D |-> 1, ndf |-> ndf,
                     n_layers |-> n_layers, downsampling_factor |-> downsampling_factor]
          /\ model' = NLDModel(ndf, n_layers, downsampling_factor)
    /\ modules' = IF NLDConstructible(model') THEN NLDModules(model') ELSE <<>>
    /\ raised' = IF NLDConstructible(model') THEN raised ELSE "ValueError"
    /\ op' = "nld"
    /\ pc' = IF NLDConstructible(model') THEN "ready" ELSE "done"
    /\ UNCHANGED <<input, x, idx, bottom_up, top_down, results, mel>>

NLayerDiscriminatorForward ==
    /\ op = "nld"
    /\ pc = "ready"
    /\ \E b \in 1..MaxBatch, l \in WaveformLens :
          /\ input' = Shape(b, 1, l)
          /\ x' = Shape(b, 1, l)
    /\ idx' = 1
    /\ bottom_up' = <<>>
    /\ top_down' = <<>>
    /\ pc' = "bottom_up"
    /\ UNCHANGED <<op, cfg, model, modules, results, raised, mel>>

(* Lines 220-222: one entry of self.model per step. *)
BottomUp ==
    /\ pc = "bottom_up"
    /\ x' = SequentialForward(model[idx], x, TRUE)
    /\ bottom_up' = IF x'.ok THEN Append(bottom_up, x') ELSE bottom_up
    /\ raised' = IF x'.ok THEN raised ELSE "RuntimeError"
    /\ idx' = idx + 1
    /\ pc' = IF ~x'.ok THEN "done" ELSE IF idx = Len(model) THEN "seed" ELSE "bottom_up"
    /\ UNCHANGED <<op, cfg, input, model, modules, top_down, results, mel>>

(* Lines 226-228: reverse, seed top_down, bottom_up.remove(0). *)
Seed ==
    /\ pc = "seed"
    /\ top_down' = Append(top_down, Reverse(bottom_up)[1])
    /\ \E z \in ZeroMasks(Reverse(bottom_up)) :
          /\ bottom_up' = ListRemove(Reverse(bottom_up), z, 1).list
          /\ raised' = ListRemove(Reverse(bottom_up), z, 1).raised
    /\ pc' = IF raised' = "none" THEN "lat" ELSE "done"
    /\ UNCHANGED <<op, cfg, input, model, modules, x, idx, results, mel>>

(* Lines 230-231. *)
Lateral ==
    /\ pc = "lat"
    /\ x' = IF Len(bottom_up) = 0 THEN Err ELSE Conv1dForward(latlayer1, bottom_up[1])
    /\ raised' = IF Len(bottom_up) = 0 THEN "IndexError"
                 ELSE IF x'.ok THEN raised ELSE "RuntimeError"
    /\ bottom_up' = IF x'.ok THEN [bottom_up EXCEPT ![1] = x'] ELSE bottom_up
    /\ top_down' = IF x'.ok THEN Append(top_down, x') ELSE top_down
    /\ idx' = 1
    /\ pc' = IF x'.ok THEN "merge" ELSE "done"
    /\ UNCHANGED <<op, cfg, input, model, modules, results, mel>>

(* Lines 233-251: one statement of the top-down path per step; after the   *)
(* last one forward returns top_down, to the caller or, inside             *)
(* Discriminator.forward, to results.append.                               *)
TopDown ==
    /\ pc = "merge"
    /\ \E backend_checks \in BOOLEAN :
          LET r == TopDownResult(TopDownSteps[idx],
                                 IF idx = 1 THEN bottom_up[1] ELSE x,
                                 bottom_up, backend_checks) IN
          /\ x' = r.result
          /\ raised' = r.raised
          /\ top_down' = IF r.raised = "none" THEN Append(top_down, r.result) ELSE top_down
    /\ idx' = idx + 1
    /\ pc' = IF raised' # "none" THEN "done"
             ELSE IF idx < Len(TopDownSteps) THEN "merge"
             ELSE IF op = "disc" THEN "disc_loop" ELSE "done"
    /\ results' = IF raised' = "none" /\ idx = Len(TopDownSteps) /\ op = "disc"
                  THEN Append(results, top_down') ELSE results
    /\ UNCHANGED <<op, cfg, input, model, modules, bottom_up, mel>>

-----------------------------------------------------------------------------
(* Discriminator. *)

DiscriminatorInit ==
    /\ pc = "idle"
    /\ \E num_D \in 0..MaxNumD, ndf \in NdfValues, n_layers \in 1..MaxNLayers,
          downsampling_factor \in 1..MaxDownsampling :
          /\ cfg' = [kind |-> "Discriminator", num_D |-> num_D, ndf |-> ndf,
                     n_layers |-> n_layers, downsampling_factor |-> downsampling_factor]
          /\ model' = NLDModel(ndf, n_layers, downsampling_factor)
    /\ modules' = IF cfg'.num_D = 0 \/ NLDConstructible(model')
                  THEN DiscriminatorModules(model', cfg'.num_D) ELSE <<>>
    /\ raised' = IF cfg'.num_D = 0 \/ NLDConstructible(model') THEN raised ELSE "ValueError"
    /\ op' = "disc"
    /\ pc' = IF cfg'.num_D = 0 \/ NLDConstructible(model') THEN "apply" ELSE "done"
    /\ idx' = 1
    /\ UNCHANGED <<input, x, bottom_up, top_down, results, mel>>

DiscriminatorForward ==
    /\ op = "disc"
    /\ pc = "ready"
    /\ \E b \in 1..MaxBatch, l \in WaveformLens :
          /\ input' = Shape(b, 1, l)
          /\ x' = Shape(b, 1, l)
    /\ results' = <<>>
    /\ pc' = "disc_loop"
    /\ UNCHANGED <<op, cfg, model, modules, idx, bottom_up, top_down, raised, mel>>

(* Lines 268-271: the next sub-discriminator is called on x, which is      *)
(* still the input (the downsampling is commented out); after the last     *)
(* one results is returned.                                                *)
DiscriminatorLoop ==
    /\ op = "disc"
    /\ pc = "disc_loop"
    /\ pc' = IF Len(results) = cfg.num_D THEN "done" ELSE "bottom_up"
    /\ x' = input
    /\ idx' = 1
    /\ bottom_up' = <<>>
    /\ top_down' = <<>>
    /\ UNCHANGED <<op, cfg, input, model, modules, results, raised, mel>>

-----------------------------------------------------------------------------

Next ==
    \/ Apply
    \/ GeneratorInit
    \/ GeneratorForward
    \/ GeneratorStep
    \/ ResnetBlockInit
    \/ ResnetBlockCall
    \/ Audio2MelInit
    \/ Audio2MelPad
    \/ Audio2MelStft
    \/ Audio2MelLog
    \/ NLayerDiscriminatorInit
    \/ NLayerDiscriminatorForward
    \/ BottomUp
    \/ Seed
    \/ Lateral
    \/ TopDown
    \/ DiscriminatorInit
    \/ DiscriminatorForward
    \/ DiscriminatorLoop

Spec == Init /\ [][Next]_vars

-----------------------------------------------------------------------------
(* Generator and ResnetBlock properties. *)

(* Product of the strides of the transposed convolutions among the first k *)
(* layers of a layer list.                                                 *)
RECURSIVE UpProduct(_, _)
UpProduct(layers, k) ==
    IF k = 0 THEN 1
    ELSE (IF layers[k].kind = "ConvTranspose1d" THEN layers[k].stride ELSE 1)
         * UpProduct(layers, k - 1)

(* Channel count declared for the output of the first k layers. *)
RECURSIVE DeclaredOut(_, _, _)
DeclaredOut(layers, k, c0) ==
    IF k = 0 THEN c0
    ELSE IF layers[k].kind \in {"Conv1d", "ConvTranspose1d", "ResnetBlock"}
         THEN layers[k].cout
         ELSE DeclaredOut(layers, k - 1, c0)

RECURSIVE RatioProduct(_)
RatioProduct(i) == IF i = 0 THEN 1 ELSE ratios[i] * RatioProduct(i - 1)

(* Every reflection padding of the Generator is smaller than its input. *)
GenPadsLegal(frames, n_residual_layers) ==
    /\ 3 < frames
    /\ \A i \in 1..Len(ratios), j \in 0..(n_residual_layers - 1) :
          Pow(3, j) < frames * RatioProduct(i)

(* C1: Generator.forward maps [batch, input_size, frames], with frames     *)
(* large enough for every reflection padding, to [batch, 1, frames * 256]; *)
(* after every layer that is not a reflection padding the length is frames *)
(* times the product of the ratios of the transposed convolutions passed   *)
(* (each multiplies the length by its ratio, a padded convolution and      *)
(* every other layer preserve it); every layer's declared input channels   *)
(* are the declared output channels of the layer before it, ending in 1.   *)
C1_GeneratorShape ==
    op = "gen" =>
        /\ \A k \in 1..Len(model) :
              model[k].kind \in {"Conv1d", "ConvTranspose1d", "ResnetBlock"}
                  => model[k].cin = DeclaredOut(model, k - 1, cfg.input_size)
        /\ DeclaredOut(model, Len(model), cfg.input_size) = 1
        /\ \A i \in 1..Len(ratios) :
              \E k \in 1..Len(model) :
                  /\ model[k].kind = "ConvTranspose1d"
                  /\ model[k].stride = ratios[i]
                  /\ UpProduct(model, k - 1) * ratios[i] = UpProduct(model, k)
                  /\ model[k].k = 2 * ratios[i]
                  /\ model[k].padding = (ratios[i] \div 2) + (ratios[i] % 2)
                  /\ model[k].output_padding = ratios[i] % 2
        /\ (pc \in {"forward", "done"} /\ x.ok /\ idx > 1) =>
              /\ x.b = input.b
              /\ x.c = DeclaredOut(model, idx - 1, cfg.input_size)
              /\ x.l = input.l * UpProduct(model, idx - 1)
                       + (IF model[idx - 1].kind = "ReflectionPad1d"
                          THEN 2 * model[idx - 1].padding ELSE 0)
        /\ (pc = "done" /\ GenPadsLegal(input.l, cfg.n_residual_layers)) =>
              x = Shape(input.b, 1, input.l * 256)

C1_Witness ==
    /\ op = "gen"
    /\ pc = "done"
    /\ cfg.n_residual_layers = 2
    /\ cfg.ngf = 2
    /\ input = Shape(2, cfg.input_size, 4)
    /\ x = Shape(2, 1, 1024)

(* C7: ResnetBlock.forward returns a tensor of the shape of its input      *)
(* whenever the dilation is smaller than the input length, on its own and  *)
(* for every block the Generator instantiates (dilations 3^j, j below      *)
(* n_residual_layers, at the channel count of its stage).                  *)
C7_ResnetBlockShape ==
    /\ (op = "res" /\ pc = "done" /\ cfg.dilation < input.l) => x = input
    /\ (/\ op = "gen"
        /\ pc \in {"forward", "done"}
        /\ idx > 1
        /\ model[idx - 1].kind = "ResnetBlock"
        /\ model[idx - 1].dilation < input.l * UpProduct(model, idx - 2))
       => x = Shape(input.b, model[idx - 1].cin, input.l * UpProduct(model, idx - 2))
    /\ op = "gen" =>
          \A k \in 1..Len(model) :
              model[k].kind = "ResnetBlock" =>
                  \E j \in 0..(cfg.n_residual_layers - 1) :
                      /\ model[k].dilation = Pow(3, j)
                      /\ model[k - j - 1].kind = "ConvTranspose1d"
                      /\ model[k].cin = model[k - j - 1].cout

C7_Witness ==
    /\ op = "res"
    /\ pc = "done"
    /\ cfg.dilation = 3
    /\ input = Shape(2, 2, 4)
    /\ x = Shape(2, 2, 4)

(* C8 as stated: after the initialization pass every convolution and       *)
(* transposed convolution has a Gaussian(0, 0.02) weight and a zero bias.  *)
C8_BiasZeroed ==
    (op \in {"gen", "disc"} /\ pc = "ready") =>
        \A i \in 1..Len(modules) :
            HasParameters(modules[i].kind) =>
                /\ modules[i].visited
                /\ modules[i].weight = "normal(0.0, 0.02)"
                /\ modules[i].bias = "zero"

(* C8 amended: after the initialization pass every module of the tree has  *)
(* been visited, every convolution and transposed convolution has had      *)
(* normal_(0.0, 0.02) applied to its weight, and its bias is still the one *)
(* its constructor drew: the pass zeroes no convolution's bias.            *)
C8_WeightsInitialized ==
    (op \in {"gen", "disc"} /\ pc = "ready") =>
        \A i \in 1..Len(modules) :
            /\ modules[i].visited
            /\ HasParameters(modules[i].kind) =>
                  /\ modules[i].weight = "normal(0.0, 0.02)"
                  /\ modules[i].bias = "default"

C8_Witness ==
    /\ op = "gen"
    /\ pc = "ready"
    /\ \E i \in 1..Len(modules) : modules[i].kind = "ConvTranspose1d" /\ modules[i].visited
    /\ \E i \in 1..Len(modules) : modules[i].kind = "Conv1d" /\ modules[i].visited

-----------------------------------------------------------------------------
(* Audio2Mel properties. *)

(* C2 as stated: a waveform of length L >= hop_length yields               *)
(* 1 + floor(L / hop_length) frames.                                       *)
C2_FramesOnePlusFloor ==
    (op = "mel" /\ pc = "done" /\ raised = "none" /\ input.l >= cfg.hop_length) =>
        x.l = 1 + (input.l \div cfg.hop_length)

(* C2 amended: a waveform that forward accepts (L > p and L + 2p >= n_fft) *)
(* yields 1 + floor((L + 2p - n_fft) / hop_length) frames, which is        *)
(* floor((L - (n_fft - hop_length) mod 2) / hop_length): floor(L / 256)    *)
(* for the default n_fft = 1024, hop_length = 256.                         *)
C2_FramesFloor ==
    (op = "mel" /\ pc = "done" /\ raised = "none") =>
        /\ x.b = input.b
        /\ x.c = cfg.n_mel_channels
        /\ x.l = 1 + ((input.l + 2 * mel.p - cfg.n_fft) \div cfg.hop_length)
        /\ x.l = (input.l - ((cfg.n_fft - cfg.hop_length) % 2)) \div cfg.hop_length
        /\ cfg = DefaultAudio2Mel => x.l = input.l \div 256

C2_Witness ==
    /\ op = "mel"
    /\ pc = "done"
    /\ cfg = DefaultAudio2Mel
    /\ input.l = 512
    /\ x = Shape(1, 80, 2)

(* C6 as stated: every waveform of length L >= hop_length is accepted and  *)
(* yields at least one frame.                                              *)
C6_AcceptsFromHopLength ==
    (op = "mel" /\ pc = "done" /\ input.l >= cfg.hop_length) =>
        /\ raised = "none"
        /\ x.l >= 1

(* C6 amended: forward accepts exactly the waveforms with L > p and        *)
(* L + 2p >= n_fft (L >= 385 for the default), and yields at least one     *)
(* frame for them; every other length raises, in the reflection padding    *)
(* when L <= p and in the stft when the padded length is below n_fft, and  *)
(* no spectrogram is returned.                                             *)
C6_AcceptsAbovePad ==
    (op = "mel" /\ pc = "done") =>
        /\ mel.p = (cfg.n_fft - cfg.hop_length) \div 2
        /\ raised = "none" <=> (input.l > mel.p /\ input.l + 2 * mel.p >= cfg.n_fft)
        /\ raised = "none" => (x.ok /\ x.l >= 1 /\ mel.stage = "log")
        /\ raised # "none" => (~x.ok /\ mel.stage # "log")
        /\ input.l <= mel.p => mel.stage = "pad"
        /\ cfg = DefaultAudio2Mel => (raised = "none" <=> input.l >= 385)

C6_Witness ==
    /\ op = "mel"
    /\ pc = "done"
    /\ cfg = DefaultAudio2Mel
    /\ input.l = 385
    /\ raised = "none"
    /\ x.l = 1

(* C9: the value handed to log10 is the clamped mel projection, it is at   *)
(* least 1e-5, and the returned log-mel value is finite and at least -5.   *)
C9_LogFloor ==
    (op = "mel" /\ mel.stage = "log") =>
        /\ mel.magnitude >= 0
        /\ mel.mel_output >= 0
        /\ mel.clamped >= ClampMin
        /\ mel.clamped >= mel.mel_output
        /\ mel.log_mel_spec.finite
        /\ mel.log_mel_spec.v >= -5

C9_Witness ==
    /\ op = "mel"
    /\ mel.stage = "log"
    /\ mel.mel_output = 0
    /\ mel.log_mel_spec = [finite |-> TRUE, v |-> -5]

-----------------------------------------------------------------------------
(* Discriminator properties. *)

ItemConv(item) == item[CHOOSE j \in 1..Len(item) : item[j].kind = "Conv1d"]

(* C3: with ndf = 16, n_layers = 4, downsampling_factor = 4 and a waveform *)
(* [batch, 1, L] long enough for the first reflection padding,             *)
(* NLayerDiscriminator.forward completes without raising, the seeding step *)
(* has removed the deepest map from the reversed bottom-up list, and the   *)
(* last element of the returned list is a single-channel score map.        *)
C3_ForwardCompletes ==
    (/\ op = "nld"
     /\ pc = "done"
     /\ cfg.ndf = 16 /\ cfg.n_layers = 4 /\ cfg.downsampling_factor = 4
     /\ input.ok /\ input.c = 1 /\ input.l > 7)
    => /\ raised = "none"
       /\ Len(bottom_up) = Len(model) - 1
       /\ Len(top_down) >= 1
       /\ top_down[Len(top_down)].c = 1

(* C4: at every merge step the lateral layer is applied to a bottom-up map *)
(* whose channel count is the lateral's declared input, the lateral output *)
(* and the upsampled previous level agree in channels and length, and no   *)
(* bottom-up map and no lateral layer serves two merge steps.              *)
C4_MergeMatchesLevels ==
    (pc = "merge" /\ TopDownSteps[idx].src # 0) =>
        /\ TopDownSteps[idx].src <= Len(bottom_up)
        /\ bottom_up[TopDownSteps[idx].src].c = TopDownSteps[idx].lat.cin
        /\ \A backend_checks \in BOOLEAN :
              LET u == ConvTranspose1dForward(TopDownSteps[idx].up,
                                              IF idx = 1 THEN bottom_up[1] ELSE x,
                                              backend_checks)
                  l == Conv1dForward(TopDownSteps[idx].lat,
                                     bottom_up[TopDownSteps[idx].src])
              IN u.ok /\ l.ok /\ u.c = l.c /\ u.l = l.l
        /\ \A j, k \in 1..Len(TopDownSteps) :
              (j # k /\ TopDownSteps[j].src # 0 /\ TopDownSteps[k].src # 0) =>
                  /\ TopDownSteps[j].src # TopDownSteps[k].src
                  /\ TopDownSteps[j].name # TopDownSteps[k].name

(* C5: Discriminator.forward returns num_D entries, one per                *)
(* sub-discriminator in construction order, every sub-discriminator having *)
(* been called on the unchanged input, and every feature map of every      *)
(* entry has the batch size of the input (stated for ndf = 16,             *)
(* n_layers = 4, downsampling_factor = 4 and a waveform long enough for    *)
(* the first reflection padding).                                          *)
C5_ReturnsNumDEntries ==
    /\ (op = "disc" /\ pc = "bottom_up" /\ idx = 1) => x = input
    /\ (/\ op = "disc"
        /\ pc = "done"
        /\ cfg.ndf = 16 /\ cfg.n_layers = 4 /\ cfg.downsampling_factor = 4
        /\ input.ok /\ input.l > 7) =>
          /\ raised = "none"
          /\ Len(results) = cfg.num_D
          /\ \A i \in 1..Len(results) : \A j \in 1..Len(results[i]) :
                results[i][j].b = input.b

(* C10: in every NLayerDiscriminator that is constructed, each layer of    *)
(* the bottom-up stack declares as input channels the output channels of   *)
(* the layer before it, no layer has more than 1024 output channels, and   *)
(* the group count of each strided layer is at least 1 and divides its     *)
(* input and output channel counts.                                        *)
C10_ChannelConsistent ==
    (op = "nld" /\ pc = "ready") =>
        /\ ItemConv(model[1]).cin = 1
        /\ \A i \in 2..Len(model) : ItemConv(model[i]).cin = ItemConv(model[i - 1]).cout
        /\ \A i \in 1..Len(model) : ItemConv(model[i]).cout <= 1024
        /\ \A i \in 2..(cfg.n_layers + 1) :
              /\ ItemConv(model[i]).groups >= 1
              /\ ItemConv(model[i]).cin % ItemConv(model[i]).groups = 0
              /\ ItemConv(model[i]).cout % ItemConv(model[i]).groups = 0

====
